---- MODULE Spec2Model ----
(***************************************************************************)
(* The tourist-spot server of src/index.js (the JWT version, lines 1-363): *)
(* token issue and logout, the verifyToken guard, and the /tourist-spot    *)
(* routes over the MongoDB collection and the Cloudinary asset store.      *)
(*                                                                         *)
(* Every handler is one action.  A handler's awaited calls on the          *)
(* collection and on the asset store are recorded, in order, in            *)
(* last.calls; last is the request just served and what it was answered.   *)
(***************************************************************************)
EXTENDS Integers, Sequences, FiniteSets, TLC

VARIABLES
  collection,   \* the documents of travel-agency.tourist-spot
  nextOid,      \* the next ObjectId the driver generates
  now,          \* the clock jwt.sign and jwt.verify read
  issued,       \* every token POST /jwt has put in a Set-Cookie
  cookie,       \* the browser's "token" cookie
  loggedOut,    \* POST /jwt-logout has been served
  created,      \* ids answered by a 201 of POST /tourist-spot
  deleted,      \* ids for which DELETE /tourist-spot/:id answered 200
  last          \* the request just served, its calls and its answer

vars == <<collection, nextOid, now, issued, cookie, loggedOut,
          created, deleted, last>>

storeVars == <<collection, nextOid, created, deleted>>
authVars == <<now, issued, cookie, loggedOut>>

(***************************************************************************)
(* Bounds of the model.                                                    *)
(***************************************************************************)
MaxDocs == 2
MaxTime == 3
MaxTokens == 2

\* expiresIn: "1h", counted in clock ticks of half an hour
ExpiresIn == 2

(***************************************************************************)
(* JSON values.  A body is a function from its keys to their values; a     *)
(* key the body does not carry reads as undefined.                         *)
(***************************************************************************)
Null == "null"
EmptyBody == [k \in {} |-> ""]
NoDocs == {}

WithKey(S, k, V) == S \cup { (k :> v) @@ b : b \in S, v \in V }

Field(b, k) == IF k \in DOMAIN b THEN b[k] ELSE Null

(***************************************************************************)
(* ObjectId: new ObjectId(id) throws unless id is a 24 character hex       *)
(* string; res.json writes an ObjectId as that hex string, and a string    *)
(* as itself.                                                              *)
(***************************************************************************)
HexOf(n) == "65000000000000000000000" \o ToString(n)
HexStrings == { HexOf(n) : n \in 1..9 }

isValidObjectId(s) == s \in HexStrings
ObjectId(s) == [type |-> "oid", v |-> s]
StringId(s) == [type |-> "str", v |-> s]
toJSON(id) == id.v

IdParams == { HexOf(n) : n \in 1..MaxDocs } \cup {"reef"}
Emails == {"a@x.com", "b@x.com"}

ImgInfos == { [url |-> "u0", public_id |-> ""],
              [url |-> "u1", public_id |-> "img1"] }

\* req.body of POST /tourist-spot
PostBodies ==
  WithKey(WithKey({[spot_name |-> "Reef", userEmail |-> "a@x.com"]},
    "_id", {"reef", HexOf(1)}),
    "imgHostingInfo", ImgInfos)

\* req.body of PATCH /tourist-spot/:id
PatchBodies ==
  { EmptyBody,
    [spot_name |-> "Bay"],
    [imgHostingInfo |-> [url |-> "u0", public_id |-> ""]],
    [spot_name |-> "Bay", ex_public_id |-> ""],
    [spot_name |-> "Bay", ex_public_id |-> "img1",
     imgHostingInfo |-> [url |-> "u1", public_id |-> "img1"]] }

(***************************************************************************)
(* The collection's operations, as the MongoDB driver performs them.       *)
(***************************************************************************)
\* insertOne keeps a body's own _id and generates one (pk) only when the
\* body has none; a second document with the same _id is a duplicate key.
insertOne(coll, doc, pk) ==
  LET id == IF "_id" \in DOMAIN doc THEN StringId(doc["_id"]) ELSE pk
      stored == ("_id" :> id) @@ doc
  IN  IF \E d \in coll : d["_id"] = id
      THEN [threw |-> TRUE, insertedId |-> id, coll |-> coll]
      ELSE [threw |-> FALSE, insertedId |-> id, coll |-> coll \cup {stored}]

findOne(coll, id) == { d \in coll : d["_id"] = id }

deleteOne(coll, id) ==
  [deletedCount |-> Cardinality(findOne(coll, id)),
   coll |-> coll \ findOne(coll, id)]

\* { $set: fields }: the keys of fields replace the document's
updateOne(coll, id, fields) ==
  LET new == { IF d["_id"] = id THEN fields @@ d ELSE d : d \in coll }
  IN  [modifiedCount |-> IF new = coll THEN 0 ELSE 1, coll |-> new]

\* tourist_spot?.imgHostingInfo?.public_id, "" when it is missing
publicIdOf(docs) ==
  IF \E d \in docs : "imgHostingInfo" \in DOMAIN d
  THEN (CHOOSE d \in docs : "imgHostingInfo" \in DOMAIN d)["imgHostingInfo"].public_id
  ELSE ""

(***************************************************************************)
(* What is recorded of a request.                                          *)
(***************************************************************************)
\* a POST /jwt body: kind "none" is a missing body, "array" a JSON array;
\* user "" is a body with no user, iat or exp 0 a body without that key
NoClaim == [kind |-> "none", user |-> "", iat |-> 0, exp |-> 0]
NoToken == [payload |-> NoClaim, sig |-> "none"]

Blank ==
  [route |-> "none", id |-> "", email |-> "", token |-> NoToken,
   body |-> EmptyBody, at |-> 0, guard |-> "none", handler |-> FALSE,
   calls |-> <<>>, status |-> 0, sent |-> 0, nexts |-> 0,
   data |-> NoDocs, resId |-> ""]

Call(op, arg, ok) == [op |-> op, arg |-> arg, ok |-> ok]

\* the error responder: res.status(err.status || 500); none of the errors
\* thrown here carries a status
errorStatus == 500

\* res.status(s)...: the handler's own response
Sent(req, calls, s) ==
  [req EXCEPT !.handler = TRUE, !.calls = calls, !.status = s, !.sent = 1]

\* catch (err) { next(err) }
Threw(req, calls) ==
  [req EXCEPT !.handler = TRUE, !.calls = calls, !.status = errorStatus,
              !.nexts = 1]

Init ==
  /\ collection = {}
  /\ nextOid = 1
  /\ now = 1
  /\ issued = {}
  /\ cookie = NoToken
  /\ loggedOut = FALSE
  /\ created = {}
  /\ deleted = {}
  /\ last = Blank

(***************************************************************************)
(* GET /tourist-spot                                                       *)
(***************************************************************************)
listStatus(data) == IF data = {} THEN 404 ELSE 200

GetAll ==
  \E storeOk \in BOOLEAN :
    LET req == [Blank EXCEPT !.route = "GET /tourist-spot"]
        calls == <<Call("find", "", storeOk)>>
    IN  /\ last' = IF ~storeOk THEN Threw(req, calls)
                   ELSE [Sent(req, calls, listStatus(collection))
                           EXCEPT !.data = collection]
        /\ UNCHANGED <<storeVars, authVars>>

(***************************************************************************)
(* GET /tourist-spot/:id                                                   *)
(***************************************************************************)
GetById ==
  \E id \in IdParams :
  \E storeOk \in (IF isValidObjectId(id) THEN BOOLEAN ELSE {TRUE}) :
    LET req == [Blank EXCEPT !.route = "GET /tourist-spot/:id", !.id = id]
        calls == <<Call("findOne", id, storeOk)>>
        data == findOne(collection, ObjectId(id))
    IN  /\ last' = IF ~isValidObjectId(id) THEN Threw(req, <<>>)
                   ELSE IF ~storeOk THEN Threw(req, calls)
                   ELSE IF data = {} THEN Sent(req, calls, 404)
                   ELSE [Sent(req, calls, 200) EXCEPT !.data = data]
        /\ UNCHANGED <<storeVars, authVars>>

(***************************************************************************)
(* POST /tourist-spot                                                      *)
(***************************************************************************)
Create ==
  \E body \in PostBodies, storeOk \in BOOLEAN :
    LET req == [Blank EXCEPT !.route = "POST /tourist-spot", !.body = body]
        pk == ObjectId(HexOf(nextOid))
        res == insertOne(collection, body, pk)
        ok == storeOk /\ ~res.threw
        calls == <<Call("insertOne", toJSON(res.insertedId), ok)>>
    IN  /\ Cardinality(collection) + Cardinality(deleted) < MaxDocs
        /\ last' = IF ~ok THEN Threw(req, calls)
                   ELSE [Sent(req, calls, 201)
                           EXCEPT !.resId = toJSON(res.insertedId)]
        /\ collection' = IF ok THEN res.coll ELSE collection
        /\ nextOid' = IF ok /\ res.insertedId = pk THEN nextOid + 1 ELSE nextOid
        /\ created' = IF ok THEN created \cup {toJSON(res.insertedId)} ELSE created
        /\ UNCHANGED <<deleted, authVars>>

(***************************************************************************)
(* DELETE /tourist-spot/:id                                                *)
(***************************************************************************)
\* deleteStatus without the deletedCount test
deleteStatusOk(deletedCount) == 200

deleteStatus(deletedCount) == IF deletedCount = 0 THEN 404 ELSE 200

\* failAt: which awaited call rejects: 0 none, 1 findOne, 2 destroy,
\* 3 deleteOne
deleteFailPoints(id) ==
  IF ~isValidObjectId(id) THEN {0}
  ELSE IF publicIdOf(findOne(collection, ObjectId(id))) # "" THEN 0..3
  ELSE {0, 1, 3}

Delete ==
  \E id \in IdParams :
  \E failAt \in deleteFailPoints(id) :
    LET req == [Blank EXCEPT !.route = "DELETE /tourist-spot/:id", !.id = id]
        filter == ObjectId(id)
        tourist_spot == findOne(collection, filter)
        pid == publicIdOf(tourist_spot)
        c1 == <<Call("findOne", id, failAt # 1)>>
        c2 == IF pid # "" THEN c1 \o <<Call("destroy", pid, failAt # 2)>>
              ELSE c1
        c3 == c2 \o <<Call("deleteOne", id, failAt # 3)>>
        res == deleteOne(collection, filter)
        atDelete == failAt # 1 /\ ~(pid # "" /\ failAt = 2)
        done == atDelete /\ failAt # 3
    IN  IF ~isValidObjectId(id)
        THEN /\ last' = Threw(req, <<>>)
             /\ UNCHANGED <<storeVars, authVars>>
        ELSE /\ last' = IF failAt = 1 THEN Threw(req, c1)
                        ELSE IF ~atDelete THEN Threw(req, c2)
                        ELSE IF ~done THEN Threw(req, c3)
                        ELSE Sent(req, c3, deleteStatus(res.deletedCount))
             /\ collection' = IF done THEN res.coll ELSE collection
             /\ deleted' = IF done /\ res.deletedCount # 0
                           THEN deleted \cup {id} ELSE deleted
             /\ UNCHANGED <<nextOid, created, authVars>>

(***************************************************************************)
(* PATCH /tourist-spot/:id                                                 *)
(***************************************************************************)
\* the $set of the editable fields (spot_name stands for the eight, which
\* the handler assigns alike); a field the body lacks is written as null;
\* imgHostingInfo is added only if the body has it
updateFields(body) ==
  LET base == "spot_name" :> Field(body, "spot_name")
  IN  IF "imgHostingInfo" \in DOMAIN body
      THEN ("imgHostingInfo" :> body["imgHostingInfo"]) @@ base
      ELSE base

\* hasExPublicId testing the key's presence instead of its truthiness
hasExPublicIdKey(body) == "ex_public_id" \in DOMAIN body

\* if (ex_public_id)
hasExPublicId(body) ==
  "ex_public_id" \in DOMAIN body /\ body["ex_public_id"] # ""

updateStatus(modifiedCount) == IF modifiedCount = 0 THEN 500 ELSE 200

\* failAt: which awaited call rejects: 0 none, 1 destroy, 2 updateOne
patchFailPoints(id, body) ==
  IF ~isValidObjectId(id) THEN {0}
  ELSE IF hasExPublicId(body) THEN 0..2
  ELSE {0, 2}

Patch ==
  \E id \in IdParams, body \in PatchBodies :
  \E failAt \in patchFailPoints(id, body) :
    LET req == [Blank EXCEPT !.route = "PATCH /tourist-spot/:id",
                             !.id = id, !.body = body]
        filter == ObjectId(id)
        ex == hasExPublicId(body)
        c1 == IF ex THEN <<Call("destroy", body["ex_public_id"], failAt # 1)>>
              ELSE <<>>
        c2 == c1 \o <<Call("updateOne", id, failAt # 2)>>
        res == updateOne(collection, filter, updateFields(body))
        atUpdate == ~(ex /\ failAt = 1)
        done == atUpdate /\ failAt # 2
    IN  IF ~isValidObjectId(id)
        THEN /\ last' = Threw(req, <<>>)
             /\ UNCHANGED <<storeVars, authVars>>
        ELSE /\ last' = IF ~atUpdate THEN Threw(req, c1)
                        ELSE IF ~done THEN Threw(req, c2)
                        ELSE Sent(req, c2, updateStatus(res.modifiedCount))
             /\ collection' = IF done THEN res.coll ELSE collection
             /\ UNCHANGED <<nextOid, created, deleted, authVars>>

(***************************************************************************)
(* jsonwebtoken.  sign throws on a payload that is no plain object, and    *)
(* on one that already has exp when expiresIn is given; it stamps iat      *)
(* with the payload's own iat if it has one, else with the clock, and exp  *)
(* with iat + expiresIn.  verify fails on a foreign signature and from     *)
(* the second exp on.                                                      *)
(***************************************************************************)
ServerSig == "HS256:JWT_ACCESS_SECRET"

ObjectClaim(user, iat, exp) ==
  [kind |-> "object", user |-> user, iat |-> iat, exp |-> exp]

JwtBodies ==
  { NoClaim,
    [NoClaim EXCEPT !.kind = "array"],
    ObjectClaim("", 0, 0),
    ObjectClaim("a@x.com", 0, 0),
    ObjectClaim("b@x.com", 0, 0),
    ObjectClaim("a@x.com", 0, 1),
    ObjectClaim("a@x.com", MaxTime, 0) }

signThrows(user) == user.kind # "object" \/ user.exp # 0

jwtSign(user, t) ==
  LET timestamp == IF user.iat # 0 THEN user.iat ELSE t
  IN  [payload |-> [user EXCEPT !.iat = timestamp,
                                !.exp = timestamp + ExpiresIn],
       sig |-> ServerSig]

\* jwtVerify without the signature check
jwtVerifyNoSig(token, t) == t < token.payload.exp

jwtVerify(token, t) == token.sig = ServerSig /\ t < token.payload.exp

\* a token signed with another secret
Forged ==
  { [payload |-> ObjectClaim(u, 1, MaxTime + ExpiresIn), sig |-> "HS256:other"]
      : u \in Emails }

(***************************************************************************)
(* POST /jwt                                                               *)
(***************************************************************************)
Jwt ==
  \E user \in JwtBodies :
    LET req == [Blank EXCEPT !.route = "POST /jwt", !.at = now]
        token == jwtSign(user, now)
    IN  IF user.kind = "none"
        THEN /\ last' = Sent(req, <<>>, 401)
             /\ UNCHANGED <<storeVars, authVars>>
        ELSE IF signThrows(user)
        THEN \* catch (err) { console.log(...) }: no response, no next
             /\ last' = [req EXCEPT !.handler = TRUE]
             /\ UNCHANGED <<storeVars, authVars>>
        ELSE IF token = NoToken
        THEN /\ last' = Sent(req, <<>>, 401)
             /\ UNCHANGED <<storeVars, authVars>>
        ELSE /\ Cardinality(issued \cup {token}) <= MaxTokens
             /\ last' = [Sent(req, <<>>, 200) EXCEPT !.token = token]
             /\ cookie' = token
             /\ issued' = issued \cup {token}
             /\ UNCHANGED <<storeVars, now, loggedOut>>

(***************************************************************************)
(* POST /jwt-logout                                                        *)
(***************************************************************************)
JwtLogout ==
  LET req == [Blank EXCEPT !.route = "POST /jwt-logout", !.at = now]
  IN  /\ last' = Sent(req, <<>>, 200)
      /\ cookie' = NoToken
      /\ loggedOut' = TRUE
      /\ UNCHANGED <<storeVars, now, issued>>

(***************************************************************************)
(* verifyToken: what the guard decides for the cookie a request carries.   *)
(***************************************************************************)
\* verifyToken of a server that revokes every token at logout
verifyTokenRevoking(token, t) ==
  IF token = NoToken \/ loggedOut \/ ~jwtVerify(token, t)
  THEN [guard |-> "reject", status |-> 403, user |-> NoClaim]
  ELSE [guard |-> "pass", status |-> 0, user |-> token.payload]

verifyToken(token, t) ==
  IF token = NoToken
  THEN [guard |-> "reject", status |-> 403, user |-> NoClaim]
  ELSE IF ~jwtVerify(token, t)
  THEN [guard |-> "reject", status |-> 403, user |-> NoClaim]
  ELSE [guard |-> "pass", status |-> 0, user |-> token.payload]

(***************************************************************************)
(* GET /tourist-spot/user/:email, behind verifyToken                       *)
(***************************************************************************)
\* ownerMismatch with the comparison left out
ownerMismatchNever(email, verifiedUser) == FALSE

\* if (email !== verifiedUser)
ownerMismatch(email, verifiedUser) == email # verifiedUser

\* the cookie a request may carry: none, the browser's, a copy of any
\* token issued, or a forged one
Presentable == {NoToken, cookie} \cup issued \cup Forged

UserSpots ==
  \E token \in Presentable, email \in Emails, storeOk \in BOOLEAN :
    LET req == [Blank EXCEPT !.route = "GET /tourist-spot/user/:email",
                             !.email = email, !.token = token, !.at = now]
        g == verifyToken(token, now)
        passed == [req EXCEPT !.guard = "pass"]
        verifiedUser == g.user.user
        calls == <<Call("find", email, storeOk)>>
        data == { d \in collection : Field(d, "userEmail") = email }
    IN  /\ last' =
              IF g.guard # "pass"
              THEN [req EXCEPT !.guard = g.guard, !.status = g.status, !.sent = 1]
              ELSE IF email = "" THEN Sent(passed, <<>>, 400)
              ELSE IF ownerMismatch(email, verifiedUser)
              THEN Sent(passed, <<>>, 403)
              ELSE IF ~storeOk THEN Threw(passed, calls)
              ELSE [Sent(passed, calls, listStatus(data)) EXCEPT !.data = data]
        /\ UNCHANGED <<storeVars, authVars>>

(***************************************************************************)
(* The clock.                                                              *)
(***************************************************************************)
Tick ==
  /\ now < MaxTime
  /\ now' = now + 1
  /\ UNCHANGED <<storeVars, issued, cookie, loggedOut, last>>

(***************************************************************************)
(* Specifications.  Spec is the whole server.  The /tourist-spot routes    *)
(* read and write neither the clock nor the tokens, and the auth routes    *)
(* write nothing of the collection: SpecStore and SpecAuth are the two     *)
(* halves, SpecAuth from a database that may already hold a document.      *)
(***************************************************************************)
SeedDoc ==
  [_id |-> ObjectId(HexOf(1)), spot_name |-> "Reef", userEmail |-> "a@x.com"]

InitAuth ==
  /\ collection \in {{}, {SeedDoc}}
  /\ nextOid = IF collection = {} THEN 1 ELSE 2
  /\ now = 1
  /\ issued = {}
  /\ cookie = NoToken
  /\ loggedOut = FALSE
  /\ created = {}
  /\ deleted = {}
  /\ last = Blank

NextStore == GetAll \/ GetById \/ Create \/ Delete \/ Patch

NextAuth == Jwt \/ JwtLogout \/ UserSpots \/ Tick

Next == NextStore \/ NextAuth

Spec == Init /\ [][Next]_vars

SpecStore == Init /\ [][NextStore]_vars

SpecAuth == InitAuth /\ [][NextAuth]_vars

(***************************************************************************)
(* The claims.                                                             *)
(***************************************************************************)
UserRoute == "GET /tourist-spot/user/:email"
GetRoute == "GET /tourist-spot/:id"
PostRoute == "POST /tourist-spot"
PatchRoute == "PATCH /tourist-spot/:id"
DeleteRoute == "DELETE /tourist-spot/:id"

CallsOf(req, op) == { i \in DOMAIN req.calls : req.calls[i].op = op }
AllCallsOk(req) == \A i \in DOMAIN req.calls : req.calls[i].ok
TokenVerifies(req) ==
  req.token.sig = ServerSig /\ req.at < req.token.payload.exp
ExPublicId(req) ==
  IF "ex_public_id" \in DOMAIN req.body THEN req.body["ex_public_id"] ELSE ""

\* C1: a request to GET /tourist-spot/user/:email that carries no token
\* cookie, or a token that fails signature or expiry verification, is
\* answered 403 by the guard, and the handler behind the guard does not run:
\* no call on the collection is made for it.
C1_GuardRejects ==
  (last.route = UserRoute /\ (last.token = NoToken \/ ~TokenVerifies(last)))
    => /\ last.status = 403
       /\ last.sent = 1
       /\ last.nexts = 0
       /\ ~last.handler
       /\ last.calls = <<>>

\* C1's case: a token the server issued, presented after it expired
C1_Witness ==
  /\ last.route = UserRoute
  /\ last.token \in issued
  /\ last.at >= last.token.payload.exp
  /\ last.status = 403

\* C2: a request to GET /tourist-spot/user/b with a valid token whose
\* verified identity has user = a, a # b, is answered 403 before any query
\* on the collection is made.
C2_OwnerOnly ==
  (last.route = UserRoute /\ TokenVerifies(last)
     /\ last.token.payload.user # last.email)
    => /\ last.status = 403
       /\ last.sent = 1
       /\ last.calls = <<>>

\* C2's case: the token of one email, past the guard, asking for the other's
C2_Witness ==
  /\ last.route = UserRoute
  /\ last.guard = "pass"
  /\ last.token.payload.user \in Emails
  /\ last.email \in Emails \ {last.token.payload.user}
  /\ last.status = 403

\* C3: after POST /tourist-spot answered 201 with an id, a GET
\* /tourist-spot/:id for that id issued next (the collection answering its
\* call) returns 200 with a document whose fields are the payload's fields,
\* unchanged.
C3_RoundTrip ==
  [][ (/\ last.route = PostRoute
       /\ last.status = 201
       /\ last'.route = GetRoute
       /\ last'.id = last.resId
       /\ AllCallsOk(last'))
      => /\ last'.status = 200
         /\ \A d \in last'.data :
              /\ DOMAIN d \ {"_id"} = DOMAIN last.body \ {"_id"}
              /\ \A k \in DOMAIN d \ {"_id"} : d[k] = last.body[k] ]_vars

C5_BestEffortCleanup ==
  (/\ last.route \in {PatchRoute, DeleteRoute}
   /\ \E i \in CallsOf(last, "destroy") : ~last.calls[i].ok)
    => CallsOf(last, "updateOne") \cup CallsOf(last, "deleteOne") # {}

\* C6: every stored document either has no imgHostingInfo or has one whose
\* public_id is non-empty.
C6_ImgHasPublicId ==
  \A d \in collection :
    "imgHostingInfo" \in DOMAIN d => d["imgHostingInfo"].public_id # ""

\* C7: a GET /tourist-spot/:id (the collection answering its call) answers
\* 404 for an id whose DELETE answered 200, whatever was served in between,
\* and 200 for an id a create returned that has not been deleted.
C7_Lifecycle ==
  (last.route = GetRoute /\ AllCallsOk(last))
    => /\ last.id \in deleted => last.status = 404
       /\ last.id \in created \ deleted => last.status = 200

\* The half of C7 that holds: once its DELETE has answered 200, an id has no
\* document again, and a GET for it never answers 200.
C7_DeletedStayGone ==
  /\ \A id \in deleted : findOne(collection, ObjectId(id)) = {}
  /\ (last.route = GetRoute /\ last.id \in deleted) => last.status # 200

\* C8 (as amended): a DELETE /tourist-spot/:id for an id whose ObjectId no
\* document has (an id that is no well-formed ObjectId string included)
\* leaves the collection as it was and does not invoke destroy; it answers
\* 404 if the id is well-formed and the collection answers its calls, and
\* 500 otherwise.  Repeating it does the same.
C8_DeleteMissing ==
  [][ (/\ last'.route = DeleteRoute
       /\ findOne(collection, ObjectId(last'.id)) = {})
      => /\ collection' = collection
         /\ CallsOf(last', "destroy") = {}
         /\ last'.status = IF last'.id \in HexStrings /\ AllCallsOk(last')
                           THEN 404 ELSE 500 ]_vars

\* C8's case: documents are stored, and a DELETE for another id answered 404
C8_Witness ==
  /\ last.route = DeleteRoute
  /\ last.status = 404
  /\ collection # {}
  /\ findOne(collection, ObjectId(last.id)) = {}
  /\ last.id \notin deleted

\* C8 as stated: a DELETE /tourist-spot/:id for an id that matches no
\* document (the collection answering its calls) leaves the collection as it
\* was, does not invoke destroy, and answers 404.
C8_AsStated ==
  [][ (/\ last'.route = DeleteRoute
       /\ findOne(collection, ObjectId(last'.id)) = {}
       /\ AllCallsOk(last'))
      => /\ collection' = collection
         /\ CallsOf(last', "destroy") = {}
         /\ last'.status = 404 ]_vars

C10_OneOutcome ==
  last.route # "none" => last.sent + last.nexts = 1

====
